---- MODULE Spec2Model ----
(***************************************************************************)
(* process_icon.py: the icon generator.  One run of the script (or one     *)
(* direct call of create_icon_sizes) is modelled statement by statement;   *)
(* the filesystem (input file, output directory, files in it) is the       *)
(* environment the statements act on.                                      *)
(***************************************************************************)
EXTENDS Integers, Sequences, FiniteSets, TLC

\* How many runs in succession on the same input/output pair are explored.
MaxRuns == 2

VARIABLES
    entry,          \* "main": the script is run; "direct": create_icon_sizes is called
    input,          \* the file at input_path: "valid", "missing" or "undecodable"
    dirState,       \* what is at output_dir: "absent", "dir" or "file" (a non-directory)
    parentWritable, \* whether output_dir can be created where it is absent
    fs,             \* the files of output_dir: name -> <<w, h>>, NoFile or Undecodable
    pc,             \* the statement the run is at
    err,            \* the statement that raised, "none" while nothing has
    opens,          \* how many times this run has called Image.open
    img,            \* the source image once opened: "none" or "raster"
    i,              \* position of the loop in icon_sizes.items()
    size,           \* the loop's variable size
    resized,        \* the loop's variable resized: its dimensions <<w, h>>
    written,        \* the filenames this run has saved, in order
    lines,          \* the lines this run has printed, in order
    run,            \* the number of the current run, from 1
    dir0,           \* dirState when the current run started
    fs0,            \* fs when the current run started
    finished        \* for every run that completed: the directory and what it wrote

vars == <<entry, input, dirState, parentWritable, fs, pc, err, opens, img, i,
          size, resized, written, lines, run, dir0, fs0, finished>>

-----------------------------------------------------------------------------
\* The dictionary literal of create_icon_sizes, in source order.  base_size is
\* the exact rational <<numerator, denominator>> (83.5 is <<167, 2>>).
icon_sizes_literal ==
    << [base_size |-> <<20, 1>>,   scale |-> 2, filename |-> "AppIcon-20@2x.png"],
       [base_size |-> <<20, 1>>,   scale |-> 3, filename |-> "AppIcon-20@3x.png"],
       [base_size |-> <<29, 1>>,   scale |-> 2, filename |-> "AppIcon-29@2x.png"],
       [base_size |-> <<29, 1>>,   scale |-> 3, filename |-> "AppIcon-29@3x.png"],
       [base_size |-> <<40, 1>>,   scale |-> 2, filename |-> "AppIcon-40@2x.png"],
       [base_size |-> <<40, 1>>,   scale |-> 3, filename |-> "AppIcon-40@3x.png"],
       [base_size |-> <<60, 1>>,   scale |-> 2, filename |-> "AppIcon-60@2x.png"],
       [base_size |-> <<60, 1>>,   scale |-> 3, filename |-> "AppIcon-60@3x.png"],
       [base_size |-> <<76, 1>>,   scale |-> 1, filename |-> "AppIcon-76.png"],
       [base_size |-> <<76, 1>>,   scale |-> 2, filename |-> "AppIcon-76@2x.png"],
       [base_size |-> <<167, 2>>,  scale |-> 2, filename |-> "AppIcon-83.5@2x.png"],
       [base_size |-> <<1024, 1>>, scale |-> 1, filename |-> "AppIcon-1024.png"] >>

\* int(x) for the rational x = num / den, den > 0: truncation toward zero.
int(num, den) == IF num >= 0 THEN num \div den ELSE -((-num) \div den)

\* Fault: the base size is truncated before it is scaled, int(base_size) * scale.
PixelSizeTruncFirst(e) == int(e.base_size[1], e.base_size[2]) * e.scale
\* size = int(base_size * scale)
PixelSize(e) == int(e.base_size[1] * e.scale, e.base_size[2])

\* Fault: the dictionary keyed by pixel size, as its comment "(size: filename)" reads.
DictKeyBySize(e) == <<PixelSize(e)>>
\* The key of a dictionary entry: the tuple (base_size, scale).
DictKey(e) == <<e.base_size, e.scale>>

\* d[key] = value on an insertion-ordered dict: an existing key keeps its
\* position and takes the new value, a new key is appended.
DictSet(d, e) ==
    IF \E j \in 1..Len(d) : DictKey(d[j]) = DictKey(e)
    THEN [j \in 1..Len(d) |-> IF DictKey(d[j]) = DictKey(e) THEN e ELSE d[j]]
    ELSE Append(d, e)

RECURSIVE DictBuild(_, _)
DictBuild(lit, d) ==
    IF lit = <<>> THEN d ELSE DictBuild(Tail(lit), DictSet(d, Head(lit)))

\* icon_sizes.items(): what the loop iterates, in iteration order.
icon_sizes == DictBuild(icon_sizes_literal, <<>>)

\* print(f"Created {filename} ({size}x{size})")
FormatLine(filename, sz) ==
    "Created " \o filename \o " (" \o ToString(sz) \o "x" \o ToString(sz) \o ")"

-----------------------------------------------------------------------------
\* The filesystem under output_dir.  A file is the dimensions <<w, h>> of the
\* image it holds; NoFile is no file of that name, Undecodable a file that
\* holds no complete image.  ForeignName is a file of the asset catalog that
\* is none of the script's.
NoFile == <<>>
Undecodable == <<0, 0>>
ForeignName == "Contents.json"
IconNames == {icon_sizes_literal[k].filename : k \in 1..Len(icon_sizes_literal)}
AllNames == IconNames \cup {ForeignName}

\* The directories a first run may find: empty, a full set of icons of
\* other dimensions, the catalog's own file only, and a few icons among it.
EmptyDir == [n \in AllNames |-> NoFile]
StaleDir == [n \in AllNames |-> IF n = ForeignName THEN NoFile ELSE <<512, 512>>]
CatalogDir == [EmptyDir EXCEPT ![ForeignName] = Undecodable]
PartialDir == [n \in AllNames |->
                 IF n \in {"AppIcon-40@3x.png", "AppIcon-1024.png"} THEN <<16, 16>>
                 ELSE IF n = ForeignName THEN Undecodable ELSE NoFile]
InitialDirs == {EmptyDir, StaleDir, CatalogDir, PartialDir}

\* Where a run starts: the script at os.makedirs, a call of
\* create_icon_sizes at Image.open.
FirstPc(en) == IF en = "main" THEN "makedirs" ELSE "open"

\* A run about to start.  Files exist only inside a directory, and a path
\* that is taken (by a directory or by a file) has a parent.
Init ==
    /\ entry \in {"main", "direct"}
    /\ input \in {"valid", "missing", "undecodable"}
    /\ dirState \in {"absent", "dir", "file"}
    /\ parentWritable \in BOOLEAN
    /\ fs \in InitialDirs
    /\ dirState # "dir" => fs = EmptyDir
    /\ dirState # "absent" => parentWritable
    /\ pc = FirstPc(entry)
    /\ err = "none"
    /\ opens = 0
    /\ img = "none"
    /\ i = 1
    /\ size = 0
    /\ resized = NoFile
    /\ written = <<>>
    /\ lines = <<>>
    /\ run = 1
    /\ dir0 = dirState
    /\ fs0 = fs
    /\ finished = <<>>

-----------------------------------------------------------------------------
\* Fault: __main__ without its os.makedirs call.
MakedirsOmitted ==
    /\ pc = "makedirs"
    /\ pc' = "open"
    /\ UNCHANGED <<entry, input, dirState, parentWritable, fs, err, opens, img, i,
                   size, resized, written, lines, run, dir0, fs0, finished>>
\* Fault: os.makedirs with its error swallowed.
MakedirsIgnoringErrors ==
    /\ pc = "makedirs"
    /\ dirState' = IF dirState = "absent" /\ parentWritable THEN "dir" ELSE dirState
    /\ pc' = "open"
    /\ UNCHANGED <<entry, input, parentWritable, fs, err, opens, img, i,
                   size, resized, written, lines, run, dir0, fs0, finished>>
\* __main__: os.makedirs(output_dir, exist_ok=True), then the call of
\* create_icon_sizes.  An existing directory is left alone, an absent one is
\* created with its parents; anything else raises and the script ends.
Makedirs ==
    /\ pc = "makedirs"
    /\ IF dirState = "dir" \/ (dirState = "absent" /\ parentWritable)
       THEN /\ dirState' = "dir"
            /\ pc' = "open"
            /\ err' = err
       ELSE /\ dirState' = dirState
            /\ pc' = "failed"
            /\ err' = "makedirs"
    /\ UNCHANGED <<entry, input, parentWritable, fs, opens, img, i,
                   size, resized, written, lines, run, dir0, fs0, finished>>

\* The head of "for (base_size, scale), filename in icon_sizes.items()" with
\* the iterator at position k: the body's first statement, or the loop's end.
LoopHead(k) == IF k <= Len(icon_sizes) THEN "size" ELSE "done"

\* The record kept of a run that returned normally.
Completed(p, dir, w) ==
    IF p = "done" THEN Append(finished, [run |-> run, fs |-> dir, written |-> w])
    ELSE finished

\* Fault: Image.open that never raises (a placeholder image on failure).
OpenWithFallback ==
    /\ pc = "open"
    /\ opens' = opens + 1
    /\ img' = "raster"
    /\ pc' = LoopHead(i)
    /\ finished' = Completed(pc', fs, written)
    /\ UNCHANGED <<entry, input, dirState, parentWritable, fs, err, i,
                   size, resized, written, lines, run, dir0, fs0>>
\* Fault: the image opened again at every entry of the loop.
OpenEachEntry ==
    /\ pc \in {"open", "size"}
    /\ input = "valid"
    /\ opens' = opens + 1
    /\ img' = "raster"
    /\ pc' = IF pc = "open" THEN LoopHead(i) ELSE "resize"
    /\ size' = IF pc = "size" THEN PixelSize(icon_sizes[i]) ELSE size
    /\ finished' = Completed(pc', fs, written)
    /\ UNCHANGED <<entry, input, dirState, parentWritable, fs, err, i,
                   resized, written, lines, run, dir0, fs0>>
\* img = Image.open(input_path): raises unless the file is there and is an image.
Open ==
    /\ pc = "open"
    /\ opens' = opens + 1
    /\ IF input = "valid"
       THEN /\ img' = "raster"
            /\ pc' = LoopHead(i)
            /\ err' = err
       ELSE /\ img' = img
            /\ pc' = "failed"
            /\ err' = "open"
    /\ finished' = Completed(pc', fs, written)
    /\ UNCHANGED <<entry, input, dirState, parentWritable, fs, i,
                   size, resized, written, lines, run, dir0, fs0>>

\* size = int(base_size * scale)
ComputeSize ==
    /\ pc = "size"
    /\ size' = PixelSize(icon_sizes[i])
    /\ pc' = "resize"
    /\ UNCHANGED <<entry, input, dirState, parentWritable, fs, err, opens, img, i,
                   resized, written, lines, run, dir0, fs0, finished>>

\* resized = img.resize((size, size), Image.Resampling.LANCZOS)
Resize ==
    /\ pc = "resize"
    /\ img = "raster"
    /\ resized' = <<size, size>>
    /\ pc' = "save"
    /\ UNCHANGED <<entry, input, dirState, parentWritable, fs, err, opens, img, i,
                   size, written, lines, run, dir0, fs0, finished>>

\* Fault: a save that creates output_dir when it is absent.
SaveCreatingDir ==
    /\ pc = "save"
    /\ dirState = "dir" \/ (dirState = "absent" /\ parentWritable)
    /\ dirState' = "dir"
    /\ LET filename == icon_sizes[i].filename IN
         /\ fs' = [fs EXCEPT ![filename] = resized]
         /\ written' = Append(written, filename)
    /\ pc' = "print"
    /\ UNCHANGED <<entry, input, parentWritable, err, opens, img, i,
                   size, resized, lines, run, dir0, fs0, finished>>
\* Fault: a save that leaves an existing file as it is.
SaveKeepsExisting ==
    /\ pc = "save"
    /\ dirState = "dir"
    /\ LET filename == icon_sizes[i].filename IN
         /\ fs' = IF fs[filename] = NoFile THEN [fs EXCEPT ![filename] = resized] ELSE fs
         /\ written' = Append(written, filename)
    /\ pc' = "print"
    /\ UNCHANGED <<entry, input, dirState, parentWritable, err, opens, img, i,
                   size, resized, lines, run, dir0, fs0, finished>>
\* output_path = os.path.join(output_dir, filename); resized.save(output_path, 'PNG')
\* returning normally: the file holds the resized image, whatever it held.
Save ==
    /\ pc = "save"
    /\ dirState = "dir"
    /\ LET filename == icon_sizes[i].filename IN
         /\ fs' = [fs EXCEPT ![filename] = resized]
         /\ written' = Append(written, filename)
    /\ pc' = "print"
    /\ UNCHANGED <<entry, input, dirState, parentWritable, err, opens, img, i,
                   size, resized, lines, run, dir0, fs0, finished>>

\* Fault: the error of a save swallowed, the loop going on.
SaveFailsAndContinues ==
    /\ pc = "save"
    /\ \E after \in {fs[icon_sizes[i].filename], NoFile, Undecodable} :
         /\ dirState # "dir" => after = fs[icon_sizes[i].filename]
         /\ fs' = [fs EXCEPT ![icon_sizes[i].filename] = after]
    /\ pc' = "print"
    /\ err' = "save"
    /\ UNCHANGED <<entry, input, dirState, parentWritable, opens, img, i,
                   size, resized, written, lines, run, dir0, fs0, finished>>
\* resized.save(output_path, 'PNG') raising.  With no directory at output_dir
\* the file cannot be opened and nothing changes; in a directory the file is
\* left as it was (it could not be opened), removed, or left incomplete.
SaveFails ==
    /\ pc = "save"
    /\ \E after \in {fs[icon_sizes[i].filename], NoFile, Undecodable} :
         /\ dirState # "dir" => after = fs[icon_sizes[i].filename]
         /\ fs' = [fs EXCEPT ![icon_sizes[i].filename] = after]
    /\ pc' = "failed"
    /\ err' = "save"
    /\ UNCHANGED <<entry, input, dirState, parentWritable, opens, img, i,
                   size, resized, written, lines, run, dir0, fs0, finished>>

\* Fault: the line printed after the resize, before the save.
EarlyPrintLine ==
    /\ pc \in {"resize", "print"}
    /\ IF pc = "resize"
       THEN /\ img = "raster"
            /\ resized' = <<size, size>>
            /\ lines' = Append(lines, FormatLine(icon_sizes[i].filename, size))
            /\ pc' = "save"
            /\ i' = i
       ELSE /\ resized' = resized
            /\ lines' = lines
            /\ i' = i + 1
            /\ pc' = LoopHead(i + 1)
    /\ finished' = Completed(pc', fs, written)
    /\ UNCHANGED <<entry, input, dirState, parentWritable, fs, err, opens, img,
                   size, written, run, dir0, fs0>>
\* print(f"Created {filename} ({size}x{size})"), then the next iteration.
PrintLine ==
    /\ pc = "print"
    /\ lines' = Append(lines, FormatLine(icon_sizes[i].filename, size))
    /\ i' = i + 1
    /\ pc' = LoopHead(i + 1)
    /\ finished' = Completed(pc', fs, written)
    /\ UNCHANGED <<entry, input, dirState, parentWritable, fs, err, opens, img,
                   size, resized, written, run, dir0, fs0>>

\* The script is run again (create_icon_sizes is called again) on the same
\* input_path and output_dir, after the previous run has ended.
Rerun ==
    /\ pc \in {"done", "failed"}
    /\ run < MaxRuns
    /\ run' = run + 1
    /\ pc' = FirstPc(entry)
    /\ err' = "none"
    /\ opens' = 0
    /\ img' = "none"
    /\ i' = 1
    /\ size' = 0
    /\ resized' = NoFile
    /\ written' = <<>>
    /\ lines' = <<>>
    /\ dir0' = dirState
    /\ fs0' = fs
    /\ UNCHANGED <<entry, input, dirState, parentWritable, fs, finished>>

Next ==
    \/ Makedirs
    \/ Open
    \/ ComputeSize
    \/ Resize
    \/ Save
    \/ SaveFails
    \/ PrintLine
    \/ Rerun

Spec == Init /\ [][Next]_vars

-----------------------------------------------------------------------------
\* The table of output files of the specification (section 6): filename, edge
\* length in pixels, and the progress line of the entry.
SpecTable ==
    << <<"AppIcon-20@2x.png",   40,   "Created AppIcon-20@2x.png (40x40)">>,
       <<"AppIcon-20@3x.png",   60,   "Created AppIcon-20@3x.png (60x60)">>,
       <<"AppIcon-29@2x.png",   58,   "Created AppIcon-29@2x.png (58x58)">>,
       <<"AppIcon-29@3x.png",   87,   "Created AppIcon-29@3x.png (87x87)">>,
       <<"AppIcon-40@2x.png",   80,   "Created AppIcon-40@2x.png (80x80)">>,
       <<"AppIcon-40@3x.png",   120,  "Created AppIcon-40@3x.png (120x120)">>,
       <<"AppIcon-60@2x.png",   120,  "Created AppIcon-60@2x.png (120x120)">>,
       <<"AppIcon-60@3x.png",   180,  "Created AppIcon-60@3x.png (180x180)">>,
       <<"AppIcon-76.png",      76,   "Created AppIcon-76.png (76x76)">>,
       <<"AppIcon-76@2x.png",   152,  "Created AppIcon-76@2x.png (152x152)">>,
       <<"AppIcon-83.5@2x.png", 167,  "Created AppIcon-83.5@2x.png (167x167)">>,
       <<"AppIcon-1024.png",    1024, "Created AppIcon-1024.png (1024x1024)">> >>

SpecNames == {SpecTable[k][1] : k \in 1..Len(SpecTable)}
SpecNamesUpTo(n) == [k \in 1..n |-> SpecTable[k][1]]
SpecLinesUpTo(n) == [k \in 1..n |-> SpecTable[k][3]]
SpecImage(k) == <<SpecTable[k][2], SpecTable[k][2]>>

\* Every file of the table is in the directory dir with the table's dimensions.
HoldsAllTwelve(dir) == \A k \in 1..Len(SpecTable) : dir[SpecTable[k][1]] = SpecImage(k)

\* Whether os.makedirs can leave a directory at output_dir, as the run started.
Creatable == dir0 = "dir" \/ (dir0 = "absent" /\ parentWritable)

InLoop == pc \in {"size", "resize", "save", "print"}

\* C1: a run that completes has saved exactly the 12 files of the table, in
\* table order, none twice and none left out (the two 120-pixel entries are
\* both there); each is in the output directory with the table's dimensions,
\* and no other file of the directory was touched.
C1_TwelveFiles ==
    pc = "done" =>
        /\ Len(SpecTable) = 12
        /\ written = SpecNamesUpTo(12)
        /\ Cardinality({written[k] : k \in 1..Len(written)}) = 12
        /\ HoldsAllTwelve(fs)
        /\ fs["AppIcon-40@3x.png"] = <<120, 120>>
        /\ fs["AppIcon-60@2x.png"] = <<120, 120>>
        /\ \A n \in DOMAIN fs \ SpecNames : fs[n] = fs0[n]

C1_Witness ==
    /\ pc = "done"
    /\ run = 1
    /\ fs0 = PartialDir
    /\ Len(written) = 12

\* C2: with no file at input_path, once Image.open has been called the run has
\* aborted there, and it has saved no file, changed nothing in the output
\* directory and printed no line.
C2_MissingInput ==
    (input = "missing" /\ opens >= 1) =>
        /\ pc = "failed"
        /\ err = "open"
        /\ written = <<>>
        /\ lines = <<>>
        /\ fs = fs0

C2_Witness ==
    /\ input = "missing"
    /\ err = "open"
    /\ entry = "main"
    /\ fs0 = StaleDir

\* C3: a run that started with no directory at output_dir and completes is a
\* run of the script, and at its end the directory exists and holds all 12
\* files; such a run of the script is in its loop only with the directory in
\* place.
C3_DirCreated ==
    /\ (dir0 = "absent" /\ pc = "done") =>
          /\ entry = "main"
          /\ dirState = "dir"
          /\ HoldsAllTwelve(fs)
          /\ Len(written) = 12
    /\ (dir0 = "absent" /\ entry = "main" /\ InLoop) => dirState = "dir"

C3_Witness ==
    /\ entry = "main"
    /\ dir0 = "absent"
    /\ pc = "done"
    /\ dirState = "dir"
    /\ run = 1

\* C4, as claimed: create_icon_sizes called with an output_dir that does not
\* exist has created the directory by the time it reaches its first save.
C4_FunctionCreatesDir ==
    (entry = "direct" /\ dir0 = "absent" /\ pc = "save") => dirState = "dir"

\* C4, amended: the directory is ensured by __main__ before it calls
\* create_icon_sizes; create_icon_sizes never creates it, and called with an
\* output_dir that is not a directory it saves nothing and prints nothing: it
\* gets no further than its first save, which raises.
C4_MainCreatesDir ==
    /\ (entry = "main" /\ (pc = "open" \/ InLoop \/ pc = "done")) => dirState = "dir"
    /\ entry = "direct" => dirState = dir0
    /\ (entry = "direct" /\ dir0 # "dir") =>
          /\ written = <<>>
          /\ lines = <<>>
          /\ fs = fs0
          /\ pc \notin {"print", "done"}
          /\ i = 1
          /\ pc = "failed" => err \in {"open", "save"}

C4_Witness ==
    /\ entry = "direct"
    /\ dir0 = "absent"
    /\ parentWritable
    /\ err = "save"
    /\ i = 1
    /\ dirState = "absent"

\* C5: when the save of entry k raises, the run has aborted there: the files of
\* entries 1..k-1 are in place as written, no file of an entry after k has been
\* touched, and the lines printed are those of entries 1..k-1 only.
C5_AbortAtFailedWrite ==
    err = "save" =>
        /\ pc = "failed"
        /\ i \in 1..Len(SpecTable)
        /\ written = SpecNamesUpTo(i - 1)
        /\ lines = SpecLinesUpTo(i - 1)
        /\ \A k \in 1..(i - 1) : fs[SpecTable[k][1]] = SpecImage(k)
        /\ \A k \in (i + 1)..Len(SpecTable) : fs[SpecTable[k][1]] = fs0[SpecTable[k][1]]

C5_Witness ==
    /\ err = "save"
    /\ i = 7
    /\ dirState = "dir"
    /\ fs0 = StaleDir
    /\ Len(written) = 6
    /\ fs["AppIcon-60@2x.png"] = Undecodable

\* C6: a run of the script whose output directory cannot be created goes no
\* further than os.makedirs: it never opens the input, saves no file, changes
\* nothing and prints no line.
C6_UncreatableDir ==
    (entry = "main" /\ ~Creatable) =>
        /\ pc \in {"makedirs", "failed"}
        /\ pc = "failed" => err = "makedirs"
        /\ opens = 0
        /\ written = <<>>
        /\ lines = <<>>
        /\ fs = fs0
        /\ dirState = dir0

C6_Witness ==
    /\ entry = "main"
    /\ dir0 = "file"
    /\ pc = "failed"
    /\ err = "makedirs"

\* C7: of two runs in succession that both complete, the second leaves the
\* directory exactly as the first left it (the same files, the same
\* dimensions) and has saved the same 12 files over the existing ones.
C7_Idempotent ==
    \A a \in 1..(Len(finished) - 1) :
        finished[a + 1].run = finished[a].run + 1 =>
            /\ finished[a + 1].fs = finished[a].fs
            /\ finished[a + 1].written = finished[a].written
            /\ finished[a].written = SpecNamesUpTo(12)
            /\ HoldsAllTwelve(finished[a + 1].fs)

C7_Witness ==
    /\ Len(finished) = 2
    /\ finished[1].run = 1
    /\ finished[2].run = 2
    /\ pc = "done"
    /\ fs0 = finished[1].fs

\* C8: the size computed for an entry is the truncation toward zero of
\* base_size * scale, the product is an integer so nothing is truncated, and
\* the 83.5 x 2 entry gives 167 x 167.
C8_ExactSizes ==
    (pc \in {"resize", "save", "print"}) =>
        LET e == icon_sizes_literal[i]
            product == e.base_size[1] * e.scale
            den == e.base_size[2]
        IN  /\ size * den <= product
            /\ product < (size + 1) * den
            /\ size * den = product
            /\ size = SpecTable[i][2]
            /\ pc \in {"save", "print"} => resized = <<size, size>>
            /\ (e.base_size = <<167, 2>> /\ e.scale = 2) =>
                   /\ size = 167
                   /\ pc = "print" => fs["AppIcon-83.5@2x.png"] = <<167, 167>>

C8_Witness ==
    /\ pc = "print"
    /\ i = 11
    /\ size = 167
    /\ fs["AppIcon-83.5@2x.png"] = <<167, 167>>

\* C9, as claimed: the output directory is not created before the input has
\* been opened successfully.
C9_OpenBeforeDir ==
    (dir0 = "absent" /\ dirState = "dir") => (opens >= 1 /\ img = "raster")

\* C9, amended: in a run of the script the output directory is ensured first,
\* then the image is opened, once, then the loop runs; the directory is in
\* place whenever the input has been opened, whether or not that succeeded.
C9_DirThenOpenThenLoop ==
    /\ opens <= 1
    /\ pc = "makedirs" => (opens = 0 /\ img = "none" /\ written = <<>> /\ lines = <<>>)
    /\ pc = "open" => (opens = 0 /\ img = "none" /\ written = <<>> /\ lines = <<>>)
    /\ (InLoop \/ pc = "done") => (opens = 1 /\ img = "raster")
    /\ (entry = "main" /\ opens >= 1) => dirState = "dir"

C9_Witness ==
    /\ entry = "main"
    /\ dir0 = "absent"
    /\ dirState = "dir"
    /\ input = "missing"
    /\ err = "open"
    /\ opens = 1

\* C10: the files saved by the run are a prefix of the table in table order,
\* the lines printed are the lines of a prefix of the table, and the lines are
\* as many as the files or exactly one fewer (the file of the current entry is
\* saved and its line not yet printed).
C10_PrefixOrder ==
    /\ Len(written) <= Len(SpecTable)
    /\ written = SpecNamesUpTo(Len(written))
    /\ \A k \in 1..Len(written) : fs[written[k]] = SpecImage(k)
    /\ Len(lines) <= Len(written)
    /\ lines = SpecLinesUpTo(Len(lines))
    /\ Len(lines) \in {Len(written), Len(written) - 1}
    /\ Len(lines) = Len(written) - 1 <=> pc = "print"

C10_Witness ==
    /\ pc = "print"
    /\ Len(written) = 7
    /\ Len(lines) = 6
    /\ lines[6] = "Created AppIcon-40@3x.png (120x120)"
====
